---- MODULE Spec2Model ----
(***************************************************************************)
(* Model of the account persistence and transaction engine of             *)
(* 白云信用社_5.6.2.py: the module-level storage functions (load_data,     *)
(* save_data, create_piggy_bank, restore_backup_file, list_backup_files)  *)
(* and the PiggyBankApp handlers that mutate the in-memory record          *)
(* (deposit, withdraw, set_new_target, set_saving_mode, reset_progress,   *)
(* create_backup, restore, on_bank_selected).                              *)
(*                                                                         *)
(* Amounts are Python floats read with float(text).  They are modelled as  *)
(* integers (whole currency units) together with the one float value that  *)
(* does not behave like a number, NaN, which float("nan") produces.        *)
(* Strings are sequences of one-character strings; a calendar date and a   *)
(* time of day are each abbreviated to one character.                      *)
(***************************************************************************)
EXTENDS Integers, Sequences, FiniteSets, TLC

VARIABLES
    current_bank,   \* PiggyBankApp.current_bank: None or the account name
    bank_data,      \* PiggyBankApp.bank_data: None or the in-memory record
    fs_dir,         \* whether MAIN_DATA_DIR/<bank> exists
    fs_data,        \* content of MAIN_DATA_DIR/<bank>/data.json
    fs_backups,     \* files of MAIN_DATA_DIR/<bank>/backup, oldest mtime first
    now,            \* the wall clock read by datetime.now()
    last,           \* the handler that ran last, its input and its outcome
    prev,           \* the record and the files as that handler found them
    ops,            \* how many handlers have changed the record or the files
                    \* (SpecStore: how many calls of save_data returned True)
    stored,         \* SpecLoad: a data.json written by hand or by another tool
    loaded,         \* SpecLoad: what load_data made of it
    settings,       \* content of global_settings.json: last_opened_bank
    banks,          \* SpecAccounts: the account directories of MAIN_DATA_DIR
    listing,        \* SpecList: a call of list_backup_files and its result
    bank_data_b     \* SpecTwo: bank_data of a second running program

vars == <<current_bank, bank_data, fs_dir, fs_data, fs_backups, now, last,
          prev, ops, stored, loaded, settings, banks, listing, bank_data_b>>

-----------------------------------------------------------------------------
(* Bounds *)

MaxOps == 2         \* handlers that get past validation, per run
MaxTick == 2        \* times the clock moves on
MaxStrLen == 3      \* length of a hand-written date string (SpecLoad)
MaxSaves == 7       \* successful saves of one account (SpecStore)
MaxStoreTick == 6   \* times the clock moves on (SpecStore)
MaxListFiles == 5   \* seconds at which a backup may have been written (SpecList)
MaxTwoOps == 2      \* transactions the two sessions save between them (SpecTwo)

(* Program constants *)

MaxBackups == 5

-----------------------------------------------------------------------------
(* Floats *)

NaN == -99

IsNaN(x) == x = NaN

FAdd(x, y) == IF IsNaN(x) \/ IsNaN(y) THEN NaN ELSE x + y

FSub(x, y) == IF IsNaN(x) \/ IsNaN(y) THEN NaN ELSE x - y

FNeg(x) == IF IsNaN(x) THEN NaN ELSE 0 - x

FAbs(x) == IF IsNaN(x) THEN NaN ELSE IF x < 0 THEN 0 - x ELSE x

\* every ordered comparison with NaN is false
FLt(x, y) == ~IsNaN(x) /\ ~IsNaN(y) /\ x < y

FLe(x, y) == ~IsNaN(x) /\ ~IsNaN(y) /\ x <= y

FGt(x, y) == FLt(y, x)

FGe(x, y) == FLe(y, x)

\* the texts typed into amount_input / new_target_input
Texts == {"abc", "0", "1", "2", "nan"}

\* float(text): a value, or ValueError
ParseFloat(t) ==
    CASE t = "0" -> [ok |-> TRUE, v |-> 0]
      [] t = "1" -> [ok |-> TRUE, v |-> 1]
      [] t = "2" -> [ok |-> TRUE, v |-> 2]
      [] t = "3" -> [ok |-> TRUE, v |-> 3]
      [] t = "nan" -> [ok |-> TRUE, v |-> NaN]
      [] OTHER -> [ok |-> FALSE, v |-> 0]

-----------------------------------------------------------------------------
(* Strings and timestamps *)

Range(s) == {s[i] : i \in 1..Len(s)}

Digit == <<"1", "2", "3", "4", "5", "6", "7", "8", "9">>

\* now.date().isoformat() / the %Y-%m-%d part
DateStr(t) == <<Digit[t.day]>>

\* the %H:%M:%S part; strftime never yields whitespace here
TimeStr(t) == <<Digit[t.sec + 1]>>

\* now.strftime(DATETIME_FORMAT), "%Y-%m-%d %H:%M:%S"
DatetimeStr(t) == DateStr(t) \o <<" ">> \o TimeStr(t)

\* the characters str.split() treats as separators
IsSpace(c) == c \in {" ", "\t"}

RECURSIVE LStrip(_)
LStrip(s) ==
    IF s = <<>> THEN <<>>
    ELSE IF IsSpace(Head(s)) THEN LStrip(Tail(s)) ELSE s

RECURSIVE TakeWord(_)
TakeWord(s) ==
    IF s = <<>> THEN <<>>
    ELSE IF IsSpace(Head(s)) THEN <<>> ELSE <<Head(s)>> \o TakeWord(Tail(s))

\* date_str.split()[0] raises IndexError when date_str is all whitespace
DatePartRaises(s) == " " \in Range(s) /\ LStrip(s) = <<>>

\* date_str.split()[0] if ' ' in date_str else date_str
DatePart(s) == IF " " \in Range(s) THEN TakeWord(LStrip(s)) ELSE s

-----------------------------------------------------------------------------
(* Records *)

ACCUMULATE == "ACCUMULATE"
PER_TARGET == "PER_TARGET"

None == [none |-> TRUE]

Keys == {"target", "current_saved", "total_deposits", "deposit_dates",
         "deposit_history", "saving_mode"}

initialize_data ==
    [target |-> 0, current_saved |-> 0, total_deposits |-> 0,
     deposit_dates |-> <<>>, deposit_history |-> <<>>,
     saving_mode |-> ACCUMULATE]

\* file contents
Absent == [kind |-> "absent"]
Corrupt == [kind |-> "corrupt"]       \* empty or cut short: json.load fails
Json(d) == [kind |-> "json", data |-> d]

\* contents only another program can leave behind
\*   Unreadable  open raises OSError, or the bytes are not UTF-8
\*               (UnicodeDecodeError)
\*   Scalar      JSON that is no object: a number, a string, null, []
\*   KeyList     the JSON list of the six key names: "key not in data" is
\*               false for each of them, so nothing is assigned
Unreadable == [kind |-> "unreadable"]
Scalar == [kind |-> "scalar"]
KeyList == [kind |-> "keylist"]

\* a JSON string stored where a number belongs ("target": "abc")
StrValue == -98

\* a deposit_history that is no list of objects (a number, null, a string)
NotAList == <<[notalist |-> TRUE]>>

\* an account directory that does not exist
NoDir == [kind |-> "nodir"]

\* the texts typed into name_entry
AccountNames == {"", "a", "b", "a/b"}

\* initialize_global_settings(): "last_opened_bank": None
initialize_global_settings == [last_opened_bank |-> ""]

\* the parts of the state a specification does not use
Elsewhere ==
    /\ settings = initialize_global_settings
    /\ banks = [n \in AccountNames |-> NoDir]
    /\ listing = None
    /\ bank_data_b = None

-----------------------------------------------------------------------------
(* load_data *)

\* mutant: every key is set to its default, present or not
FillDefaults_AllDefaults(d) ==
    [k \in Keys |-> initialize_data[k]]

\* "for key in initialized_data: if key not in data: data[key] = ..."
FillDefaults(d) ==
    [k \in Keys |-> IF k \in DOMAIN d THEN d[k] ELSE initialize_data[k]]

\* the loop over deposit_history: date_dict keeps first-insertion order
RECURSIVE CollectDates(_, _)
CollectDates(hist, acc) ==
    IF hist = <<>> THEN acc
    ELSE LET p == DatePart(Head(hist).date)
         IN  CollectDates(Tail(hist),
                          IF p \in Range(acc) THEN acc ELSE Append(acc, p))

\* the exception the loop ends with, if any: iterating what is no list of
\* objects raises TypeError, record["date"] raises KeyError, split()[0]
\* raises IndexError; the first offending entry decides
RECURSIVE LoopRaises(_)
LoopRaises(hist) ==
    IF hist = <<>> THEN "none"
    ELSE IF hist = NotAList THEN "TypeError"
    ELSE IF "date" \notin DOMAIN Head(hist) THEN "KeyError"
    ELSE IF DatePartRaises(Head(hist).date) THEN "IndexError"
    ELSE LoopRaises(Tail(hist))

\* load_data: status "ok" (the file's record, normalised), "default"
\* (initialize_data() returned) or the name of an exception the except clause
\* (json.JSONDecodeError, KeyError, TypeError) does not catch, so that
\* load_data raises and returns nothing: IndexError, OSError (standing for
\* UnicodeDecodeError too), AttributeError (data.get on a list)
load_result(file) ==
    IF file.kind = "absent" THEN [status |-> "default", data |-> initialize_data]
    ELSE IF file.kind = "corrupt" THEN [status |-> "default", data |-> initialize_data]
    ELSE IF file.kind = "unreadable" THEN [status |-> "OSError", data |-> None]
    ELSE IF file.kind = "scalar" THEN [status |-> "default", data |-> initialize_data]
    ELSE IF file.kind = "keylist" THEN [status |-> "AttributeError", data |-> None]
    ELSE LET data == FillDefaults(file.data)
             exc == LoopRaises(data.deposit_history)
         IN  IF exc \in {"KeyError", "TypeError"}
             THEN [status |-> "default", data |-> initialize_data]
             ELSE IF exc = "IndexError" THEN [status |-> "IndexError", data |-> None]
             ELSE [status |-> "ok",
                   data |-> [data EXCEPT !.deposit_dates =
                                CollectDates(data.deposit_history, <<>>)]]

load_data(file) == load_result(file).data

-----------------------------------------------------------------------------
(* save_data *)

BANK == "bank"      \* the account the session works on
NoBank == ""        \* current_bank is None

\* how a call of save_data can go
\*   ok                every step succeeds
\*   open_fail         mkdir or data_file.open("w") raises: nothing is written
\*   backup_open_fail  data_file is opened (and so truncated), then
\*                     backup_file.open("w") raises
\*   dump_fail         both files are opened, json.dump raises part-way
\*   rm_fail           as ok, but every os.remove of the rotation raises OSError
\*   sort_fail         both files are written, then os.path.getmtime raises
\*                     OSError in backup_files.sort (a file listed by glob is
\*                     gone or unreadable); the sort only runs with more than
\*                     five files, and it is outside the inner try
SaveOutcomes ==
    {"ok", "open_fail", "backup_open_fail", "dump_fail", "rm_fail", "sort_fail"}

\* f"{piggy_bank}_backup_{timestamp}.json" with timestamp "%Y%m%d_%H%M%S"
BackupName(t) == <<t.day, t.sec>>

\* backup_file.open("w") + json.dump: creates the file or overwrites the one
\* of the same name; either way it becomes the most recently modified
WriteBackup(backups, name, content) ==
    Append(SelectSeq(backups, LAMBDA b : b.name # name),
           [name |-> name, content |-> content])

\* mutant: the rotation keeps the five oldest files
Rotate_KeepsOldest(backups, rm_ok) ==
    IF Len(backups) > MaxBackups /\ rm_ok
    THEN SubSeq(backups, 1, MaxBackups)
    ELSE backups

\* "if len(backup_files) > 5: sort by mtime; remove backup_files[:-5]"
Rotate(backups, rm_ok) ==
    IF Len(backups) > MaxBackups /\ rm_ok
    THEN SubSeq(backups, Len(backups) - MaxBackups + 1, Len(backups))
    ELSE backups

save_data(dir, dataf, backups, data, t, outcome) ==
    CASE outcome = "open_fail" ->
            [ret |-> FALSE, dir |-> dir, data |-> dataf, backups |-> backups]
      [] outcome = "backup_open_fail" ->
            [ret |-> FALSE, dir |-> TRUE, data |-> Corrupt, backups |-> backups]
      [] outcome = "dump_fail" ->
            [ret |-> FALSE, dir |-> TRUE, data |-> Corrupt,
             backups |-> WriteBackup(backups, BackupName(t), Corrupt)]
      [] outcome = "sort_fail"
            /\ Len(WriteBackup(backups, BackupName(t), Json(data))) > MaxBackups ->
            [ret |-> FALSE, dir |-> TRUE, data |-> Json(data),
             backups |-> WriteBackup(backups, BackupName(t), Json(data))]
      [] OTHER ->
            [ret |-> TRUE, dir |-> TRUE, data |-> Json(data),
             backups |-> Rotate(WriteBackup(backups, BackupName(t), Json(data)),
                                outcome # "rm_fail")]

\* mutant: the files are listed oldest first
list_backup_files_OldestFirst(backups, limit) ==
    IF limit > 0 /\ limit < Len(backups) THEN SubSeq(backups, 1, limit)
    ELSE backups

\* list_backup_files: newest first, optionally the first `limit` of them
\* (a limit of 0 stands for None: both take the branch without a cap)
list_backup_files(backups, limit) ==
    LET n == Len(backups)
        newest_first == [i \in 1..n |-> backups[n + 1 - i]]
    IN  IF limit > 0 /\ limit < n THEN SubSeq(newest_first, 1, limit)
        ELSE newest_first

-----------------------------------------------------------------------------
(* The handlers of PiggyBankApp *)

\* "if not self.current_bank or not self.bank_data: return"
HasBank == current_bank # NoBank /\ bank_data # None

Snapshot ==
    [data |-> bank_data, dir |-> fs_dir, file |-> fs_data, backups |-> fs_backups]

Did(op, arg, outcome) ==
    /\ last' = [op |-> op, arg |-> arg, outcome |-> outcome]
    /\ prev' = Snapshot

\* the handler got as far as save_data, which left the files as s says
Commit(s) ==
    /\ ops < MaxOps
    /\ ops' = ops + 1
    /\ fs_dir' = s.dir
    /\ fs_data' = s.data
    /\ fs_backups' = s.backups

\* mutant: the cap is applied even when no target is set
TargetExceeded_NoZeroCheck(data, amount) ==
    FGt(FAdd(data.current_saved, amount), data.target)

TargetExceeded(data, amount) ==
    FGt(data.target, 0) /\ FGt(FAdd(data.current_saved, amount), data.target)

\* mutant: the deposit is not counted
DepositApply_NoCount(data, amount, t) ==
    LET new_balance == FAdd(data.current_saved, amount)
    IN  [data EXCEPT
            !.current_saved = new_balance,
            !.deposit_dates = IF DateStr(t) \in Range(@) THEN @
                              ELSE Append(@, DateStr(t)),
            !.deposit_history = Append(@, [date |-> DatetimeStr(t),
                                           amount |-> amount,
                                           remaining |-> FSub(data.target, new_balance)])]

DepositApply(data, amount, t) ==
    LET new_balance == FAdd(data.current_saved, amount)
    IN  [data EXCEPT
            !.current_saved = new_balance,
            !.total_deposits = @ + 1,
            !.deposit_dates = IF DateStr(t) \in Range(@) THEN @
                              ELSE Append(@, DateStr(t)),
            !.deposit_history = Append(@, [date |-> DatetimeStr(t),
                                           amount |-> amount,
                                           remaining |-> FSub(data.target, new_balance)])]

Deposit(txt) ==
    /\ HasBank
    /\ LET p == ParseFloat(txt)
       IN  IF ~p.ok
           THEN /\ Did("deposit", txt, "ValueError")
                /\ UNCHANGED <<bank_data, fs_dir, fs_data, fs_backups, ops>>
           ELSE IF FLe(p.v, 0)
           THEN /\ Did("deposit", txt, "InvalidAmount")
                /\ UNCHANGED <<bank_data, fs_dir, fs_data, fs_backups, ops>>
           ELSE IF TargetExceeded(bank_data, p.v)
           THEN /\ Did("deposit", txt, "TargetExceeded")
                /\ UNCHANGED <<bank_data, fs_dir, fs_data, fs_backups, ops>>
           ELSE /\ \E so \in SaveOutcomes :
                   LET d == DepositApply(bank_data, p.v, now)
                       s == save_data(fs_dir, fs_data, fs_backups, d, now, so)
                   IN  /\ bank_data' = d
                       /\ Commit(s)
                       /\ Did("deposit", txt, IF s.ret THEN "ok" ELSE "SaveFailed")
    /\ UNCHANGED <<current_bank, now, stored, loaded, settings, banks, listing,
                   bank_data_b>>

\* mutant: "new_balance <= 0" refuses to empty the account
InsufficientFunds_Le(data, amount) ==
    FLe(FAdd(data.current_saved, FNeg(FAbs(amount))), 0)

InsufficientFunds(data, amount) ==
    FLt(FAdd(data.current_saved, FNeg(FAbs(amount))), 0)

\* mutant: the ledger entry keeps the amount as typed, unsigned
WithdrawApply_Unsigned(data, amount, t) ==
    LET neg == FNeg(FAbs(amount))
        new_balance == FAdd(data.current_saved, neg)
    IN  [data EXCEPT
            !.current_saved = new_balance,
            !.deposit_history = Append(@, [date |-> DatetimeStr(t),
                                           amount |-> amount,
                                           remaining |-> FSub(data.target, new_balance)])]

WithdrawApply(data, amount, t) ==
    LET neg == FNeg(FAbs(amount))
        new_balance == FAdd(data.current_saved, neg)
    IN  [data EXCEPT
            !.current_saved = new_balance,
            !.deposit_history = Append(@, [date |-> DatetimeStr(t),
                                           amount |-> neg,
                                           remaining |-> FSub(data.target, new_balance)])]

Withdraw(txt) ==
    /\ HasBank
    /\ LET p == ParseFloat(txt)
       IN  IF ~p.ok
           THEN /\ Did("withdraw", txt, "ValueError")
                /\ UNCHANGED <<bank_data, fs_dir, fs_data, fs_backups, ops>>
           ELSE IF FLe(p.v, 0)
           THEN /\ Did("withdraw", txt, "InvalidAmount")
                /\ UNCHANGED <<bank_data, fs_dir, fs_data, fs_backups, ops>>
           ELSE IF InsufficientFunds(bank_data, p.v)
           THEN /\ Did("withdraw", txt, "InsufficientFunds")
                /\ UNCHANGED <<bank_data, fs_dir, fs_data, fs_backups, ops>>
           ELSE /\ \E so \in SaveOutcomes :
                   LET d == WithdrawApply(bank_data, p.v, now)
                       s == save_data(fs_dir, fs_data, fs_backups, d, now, so)
                   IN  /\ bank_data' = d
                       /\ Commit(s)
                       /\ Did("withdraw", txt, IF s.ret THEN "ok" ELSE "SaveFailed")
    /\ UNCHANGED <<current_bank, now, stored, loaded, settings, banks, listing,
                   bank_data_b>>

\* mutant: a new target starts the record afresh in either mode
SetTargetApply_AlwaysFresh(data, new_target) ==
    [initialize_data EXCEPT !.target = new_target,
                            !.saving_mode = data.saving_mode]

\* mutant: in PER_TARGET mode the ledger survives a new target
SetTargetApply_KeepsLedger(data, new_target) ==
    IF data.saving_mode = PER_TARGET
    THEN [initialize_data EXCEPT !.target = new_target,
                                 !.saving_mode = PER_TARGET,
                                 !.deposit_history = data.deposit_history]
    ELSE [data EXCEPT !.target = new_target]

\* mutant: in ACCUMULATE mode a new target forgets the deposit days
SetTargetApply_DropsDates(data, new_target) ==
    IF data.saving_mode = PER_TARGET
    THEN [initialize_data EXCEPT !.target = new_target, !.saving_mode = PER_TARGET]
    ELSE [data EXCEPT !.target = new_target, !.deposit_dates = <<>>]

SetTargetApply(data, new_target) ==
    IF data.saving_mode = PER_TARGET
    THEN [initialize_data EXCEPT !.target = new_target, !.saving_mode = PER_TARGET]
    ELSE [data EXCEPT !.target = new_target]

SetNewTarget(txt) ==
    /\ HasBank
    /\ LET p == ParseFloat(txt)
       IN  IF ~p.ok
           THEN /\ Did("set_target", txt, "ValueError")
                /\ UNCHANGED <<bank_data, fs_dir, fs_data, fs_backups, ops>>
           ELSE IF FLe(p.v, 0)
           THEN /\ Did("set_target", txt, "InvalidAmount")
                /\ UNCHANGED <<bank_data, fs_dir, fs_data, fs_backups, ops>>
           ELSE \E so \in SaveOutcomes :
                LET d == SetTargetApply(bank_data, p.v)
                    s == save_data(fs_dir, fs_data, fs_backups, d, now, so)
                IN  /\ bank_data' = d
                    /\ Commit(s)
                    /\ Did("set_target", txt, IF s.ret THEN "ok" ELSE "SaveFailed")
    /\ UNCHANGED <<current_bank, now, stored, loaded, settings, banks, listing,
                   bank_data_b>>

\* mutant: switching to PER_TARGET starts the record afresh
SetModeApply_FreshOnPerTarget(data, new_mode) ==
    IF new_mode = 0 THEN [data EXCEPT !.saving_mode = ACCUMULATE]
    ELSE [initialize_data EXCEPT !.target = data.target,
                                 !.saving_mode = PER_TARGET]

\* mutant: a change of mode puts the deposit count back to 0
SetModeApply_ResetsCount(data, new_mode) ==
    [data EXCEPT !.saving_mode = IF new_mode = 0 THEN ACCUMULATE ELSE PER_TARGET,
                 !.total_deposits = 0]

\* self.mode_combo.current(): 0 selects ACCUMULATE, anything else PER_TARGET
SetModeApply(data, new_mode) ==
    [data EXCEPT !.saving_mode = IF new_mode = 0 THEN ACCUMULATE ELSE PER_TARGET]

SetSavingMode(new_mode, so) ==
    /\ HasBank
    /\ LET d == SetModeApply(bank_data, new_mode)
           s == save_data(fs_dir, fs_data, fs_backups, d, now, so)
       IN  /\ bank_data' = d
           /\ Commit(s)
           /\ Did("set_mode", IF new_mode = 0 THEN "0" ELSE "1",
                  IF s.ret THEN "ok" ELSE "SaveFailed")
    /\ UNCHANGED <<current_bank, now, stored, loaded, settings, banks, listing,
                   bank_data_b>>

\* mutant: reset keeps the saving mode
ResetApply_KeepsMode(data) ==
    [initialize_data EXCEPT !.saving_mode = data.saving_mode]

ResetApply(data) == initialize_data

\* the user answers yes to askyesno (answering no changes nothing)
ResetProgress(so) ==
    /\ HasBank
    /\ LET d == ResetApply(bank_data)
           s == save_data(fs_dir, fs_data, fs_backups, d, now, so)
       IN  /\ bank_data' = d
           /\ Commit(s)
           /\ Did("reset", "", IF s.ret THEN "ok" ELSE "SaveFailed")
    /\ UNCHANGED <<current_bank, now, stored, loaded, settings, banks, listing,
                   bank_data_b>>

CreateBackup(so) ==
    /\ HasBank
    /\ LET s == save_data(fs_dir, fs_data, fs_backups, bank_data, now, so)
       IN  /\ Commit(s)
           /\ Did("save", "", IF s.ret THEN "ok" ELSE "SaveFailed")
    /\ UNCHANGED <<current_bank, bank_data, now, stored, loaded, settings, banks, listing,
                   bank_data_b>>

\* restore_backup_file: json.load of the backup, then save_data of what it held
restore_backup_file(dir, dataf, backups, backup_file, t, so) ==
    IF backup_file.content.kind # "json"
    THEN [ret |-> FALSE, dir |-> dir, data |-> dataf, backups |-> backups]
    ELSE save_data(dir, dataf, backups, backup_file.content.data, t, so)

\* show_restore_backup.restore with the i-th row of the list selected
Restore(i, so) ==
    /\ current_bank # NoBank
    /\ i \in 1..Len(fs_backups)
    /\ LET backup_files == list_backup_files(fs_backups, 0)
           s == restore_backup_file(fs_dir, fs_data, fs_backups,
                                    backup_files[i], now, so)
       IN  /\ Commit(s)
           /\ bank_data' = IF s.ret THEN load_data(s.data) ELSE bank_data
           /\ Did("restore", "", IF s.ret THEN "ok" ELSE "RestoreFailed")
    /\ UNCHANGED <<current_bank, now, stored, loaded, settings, banks, listing,
                   bank_data_b>>

\* list_piggy_banks: the directory exists and holds data.json
Listed == fs_dir /\ fs_data # Absent

\* update_last_opened_bank: load_global_settings, set the pointer,
\* save_global_settings, whose result is not looked at; sw says whether the
\* settings file could be written
update_last_opened_bank(st, bank_name, sw) ==
    IF sw THEN [st EXCEPT !.last_opened_bank = bank_name] ELSE st

\* on_bank_selected for a row of the account list
SelectBank(sw) ==
    /\ Listed
    /\ current_bank' = BANK
    /\ bank_data' = load_data(fs_data)
    /\ settings' = update_last_opened_bank(settings, BANK, sw)
    /\ Did("select", "", "ok")
    /\ UNCHANGED <<fs_dir, fs_data, fs_backups, now, ops, stored, loaded,
                   banks, listing, bank_data_b>>

\* how create_piggy_bank can go: ok, bank_dir.mkdir raises, or
\* data_file.open("w") raises after the directory was made
CreateOutcomes == {"ok", "mkdir_fail", "open_fail"}

create_piggy_bank(dir, dataf, co) ==
    IF dir THEN [ret |-> FALSE, dir |-> dir, data |-> dataf]
    ELSE CASE co = "mkdir_fail" -> [ret |-> FALSE, dir |-> FALSE, data |-> dataf]
           [] co = "open_fail" -> [ret |-> FALSE, dir |-> TRUE, data |-> dataf]
           [] OTHER -> [ret |-> TRUE, dir |-> TRUE, data |-> Json(initialize_data)]

\* create_new_bank.create: create_piggy_bank, then select_bank_by_name
CreateBank(co, sw) ==
    /\ LET c == create_piggy_bank(fs_dir, fs_data, co)
       IN  /\ fs_dir' = c.dir
           /\ fs_data' = c.data
           /\ current_bank' = IF c.ret THEN BANK ELSE current_bank
           /\ bank_data' = IF c.ret THEN load_data(c.data) ELSE bank_data
           /\ settings' = IF c.ret
                          THEN update_last_opened_bank(settings, BANK, sw)
                          ELSE settings
           /\ Did("create", "", IF c.ret THEN "ok" ELSE "CreateFailed")
    /\ UNCHANGED <<fs_backups, now, ops, stored, loaded, banks, listing,
                   bank_data_b>>

\* how often the clock has moved on
Ticks(t) == (t.day - 1) * 2 + t.sec

\* time passes: a second later, and from there into the next day
Tick ==
    /\ Ticks(now) < MaxTick
    /\ now' = IF now.sec = 0 THEN [now EXCEPT !.sec = 1]
              ELSE [day |-> now.day + 1, sec |-> 0]
    /\ Did("tick", "", "")
    /\ UNCHANGED <<current_bank, bank_data, fs_dir, fs_data, fs_backups,
                   ops, stored, loaded, settings, banks, listing,
                   bank_data_b>>

-----------------------------------------------------------------------------
(* One session on one account; global_settings.json is taken to be         *)
(* writable here, SpecAccounts lets its writes fail                         *)

Init ==
    /\ current_bank = NoBank
    /\ bank_data = None
    /\ fs_dir = FALSE
    /\ fs_data = Absent
    /\ fs_backups = <<>>
    /\ now = [day |-> 1, sec |-> 0]
    /\ last = [op |-> "init", arg |-> "", outcome |-> ""]
    /\ prev = Snapshot
    /\ ops = 0
    /\ stored = Absent
    /\ loaded = [status |-> "none", data |-> None]
    /\ Elsewhere

Next ==
    \/ \E co \in CreateOutcomes : CreateBank(co, TRUE)
    \/ SelectBank(TRUE)
    \/ \E txt \in Texts : Deposit(txt)
    \/ \E txt \in Texts : Withdraw(txt)
    \/ \E txt \in Texts : SetNewTarget(txt)
    \/ \E m \in {0, 1}, so \in SaveOutcomes : SetSavingMode(m, so)
    \/ \E so \in SaveOutcomes : ResetProgress(so)
    \/ \E so \in SaveOutcomes : CreateBackup(so)
    \/ \E i \in 1..Len(fs_backups), so \in SaveOutcomes : Restore(i, so)
    \/ Tick

Spec == Init /\ [][Next]_vars

-----------------------------------------------------------------------------
(* load_data on files the program did not write itself *)

Chars == {"1", "2", " ", "\t"}

Strings(n) == UNION {[1..k -> Chars] : k \in 0..n}

\* a ledger entry as stored: with some text as its date, or without the key
StoredEntries ==
    {[date |-> d, amount |-> 1, remaining |-> 0] : d \in Strings(MaxStrLen)}
        \cup {[amount |-> 1, remaining |-> 0]}

\* ledgers of up to two entries, enough for a date to repeat
StoredLedgers == UNION {[1..k -> StoredEntries] : k \in 0..2}

\* what the file lists under deposit_dates: nothing, a date no entry has,
\* the same date twice
StoredDates == {<<>>, << <<"2">> >>, << <<"1">>, <<"1">> >>}

\* the values an object with some of the keys holds under them
StoredValues ==
    [target : {1, StrValue}, current_saved : {1}, total_deposits : {1},
     deposit_dates : {<< <<"2">> >>},
     deposit_history : {<<[date |-> <<"1", " ", "1">>, amount |-> 1,
                           remaining |-> 0]>>, NotAList},
     saving_mode : {PER_TARGET}]

\* objects that lack some or all of the keys
PartialObjects ==
    {[k \in K |-> v[k]] : K \in SUBSET Keys, v \in StoredValues}

StoredFiles ==
    {Json([initialize_data EXCEPT !.deposit_dates = dd, !.deposit_history = h]) :
        dd \in StoredDates, h \in StoredLedgers}
      \cup {Json(d) : d \in PartialObjects}
      \cup {Corrupt, Unreadable, Scalar, KeyList}

InitLoad ==
    /\ current_bank = NoBank
    /\ bank_data = None
    /\ fs_dir = FALSE
    /\ fs_data = Absent
    /\ fs_backups = <<>>
    /\ now = [day |-> 1, sec |-> 0]
    /\ last = [op |-> "init", arg |-> "", outcome |-> ""]
    /\ prev = Snapshot
    /\ ops = 0
    /\ stored \in StoredFiles
    /\ loaded = [status |-> "none", data |-> None]
    /\ Elsewhere

\* load_data is called on the stored file
LoadStored ==
    /\ loaded.status = "none"
    /\ loaded' = load_result(stored)
    /\ UNCHANGED <<current_bank, bank_data, fs_dir, fs_data, fs_backups, now,
                   last, prev, ops, stored, settings, banks, listing,
                   bank_data_b>>

NextLoad == LoadStored

SpecLoad == InitLoad /\ [][NextLoad]_vars

-----------------------------------------------------------------------------
(* A session on an account that an earlier session left behind *)

\* what the earlier session did, all within the first second: a deposit of
\* 2, and then perhaps the switch to PER_TARGET
EarlierRecords ==
    LET t0 == [day |-> 1, sec |-> 0]
        r == DepositApply(initialize_data, 2, t0)
    IN  {r, SetModeApply(r, 1)}

\* the files its last save_data left, the program not yet on any account
InitSession ==
    /\ current_bank = NoBank
    /\ bank_data = None
    /\ now = [day |-> 1, sec |-> 0]
    /\ \E r \in EarlierRecords :
          LET s == save_data(TRUE, Json(r), <<>>, r, now, "ok")
          IN  /\ fs_dir = s.dir
              /\ fs_data = s.data
              /\ fs_backups = s.backups
    /\ last = [op |-> "init", arg |-> "", outcome |-> ""]
    /\ prev = Snapshot
    /\ ops = 0
    /\ stored = Absent
    /\ loaded = [status |-> "none", data |-> None]
    /\ Elsewhere

SpecSession == InitSession /\ [][Next]_vars

-----------------------------------------------------------------------------
(* save_data called again and again on one account *)

\* create_backup: save_data of the record as it is; last.arg keeps how the
\* call went
SaveData(so) ==
    /\ HasBank
    /\ ops < MaxSaves
    /\ LET s == save_data(fs_dir, fs_data, fs_backups, bank_data, now, so)
       IN  /\ fs_dir' = s.dir
           /\ fs_data' = s.data
           /\ fs_backups' = s.backups
           /\ ops' = IF s.ret THEN ops + 1 ELSE ops
           /\ Did("save_data", so, IF s.ret THEN "ok" ELSE "SaveFailed")
    /\ UNCHANGED <<current_bank, bank_data, now, stored, loaded, settings, banks, listing,
                   bank_data_b>>

TickStore ==
    /\ Ticks(now) < MaxStoreTick
    /\ now' = IF now.sec = 0 THEN [now EXCEPT !.sec = 1]
              ELSE [day |-> now.day + 1, sec |-> 0]
    /\ Did("tick", "", "")
    /\ UNCHANGED <<current_bank, bank_data, fs_dir, fs_data, fs_backups,
                   ops, stored, loaded, settings, banks, listing,
                   bank_data_b>>

\* the account has just been created and selected
InitStore ==
    /\ current_bank = BANK
    /\ bank_data = initialize_data
    /\ fs_dir = TRUE
    /\ fs_data = Json(initialize_data)
    /\ fs_backups = <<>>
    /\ now = [day |-> 1, sec |-> 0]
    /\ last = [op |-> "create", arg |-> "", outcome |-> "ok"]
    /\ prev = Snapshot
    /\ ops = 0
    /\ stored = Absent
    /\ loaded = [status |-> "none", data |-> None]
    /\ Elsewhere

NextStore ==
    \/ \E so \in SaveOutcomes : SaveData(so)
    \/ TickStore

SpecStore == InitStore /\ [][NextStore]_vars

\* show_restore_backup.restore with the i-th row of the list selected;
\* last.chosen keeps the backup file that was picked
RestoreData(i, so) ==
    /\ current_bank # NoBank
    /\ ops < MaxSaves
    /\ i \in 1..Len(fs_backups)
    /\ LET backup_files == list_backup_files(fs_backups, 0)
           s == restore_backup_file(fs_dir, fs_data, fs_backups,
                                    backup_files[i], now, so)
       IN  /\ fs_dir' = s.dir
           /\ fs_data' = s.data
           /\ fs_backups' = s.backups
           /\ ops' = IF s.ret THEN ops + 1 ELSE ops
           /\ bank_data' = IF s.ret THEN load_data(s.data) ELSE bank_data
           /\ last' = [op |-> "restore_data", arg |-> so,
                       outcome |-> IF s.ret THEN "ok" ELSE "RestoreFailed",
                       chosen |-> backup_files[i]]
           /\ prev' = Snapshot
    /\ UNCHANGED <<current_bank, now, stored, loaded, settings, banks, listing,
                   bank_data_b>>

\* saves that succeed, restores that succeed or cannot open data.json, and
\* the clock
NextRestore ==
    \/ SaveData("ok")
    \/ \E i \in 1..Len(fs_backups), so \in {"ok", "open_fail"} :
          RestoreData(i, so)
    \/ TickStore

SpecRestore == InitStore /\ [][NextRestore]_vars

-----------------------------------------------------------------------------
(* Two running programs on the same account directory: the first keeps its *)
(* self.bank_data in bank_data, the second in bank_data_b                   *)

Sessions == {1, 2}

\* self.bank_data of a session
SessionData(s) == IF s = 1 THEN bank_data ELSE bank_data_b

\* mutant: the handler reads data.json again before it changes the record
WorkingRecord_Rereads(s) == load_data(fs_data)

\* the record deposit and withdraw change: self.bank_data as the session
\* loaded it, whatever data.json holds by now
WorkingRecord(s) == SessionData(s)

\* last.acked keeps, for each session, the ledger entries of the
\* transactions it was told were saved
DidIn(s, op, arg, outcome, acked) ==
    /\ last' = [op |-> op, arg |-> arg, outcome |-> outcome, session |-> s,
                acked |-> acked]
    /\ prev' = [Snapshot EXCEPT !.data = SessionData(s)]

SetSessionData(s, d) ==
    IF s = 1 THEN bank_data' = d /\ UNCHANGED bank_data_b
    ELSE bank_data_b' = d /\ UNCHANGED bank_data

\* on_bank_selected in session s
SessionOpen(s) ==
    /\ Listed
    /\ SetSessionData(s, load_data(fs_data))
    /\ settings' = update_last_opened_bank(settings, BANK, TRUE)
    /\ DidIn(s, "session_open", "", "ok", last.acked)
    /\ UNCHANGED <<current_bank, fs_dir, fs_data, fs_backups, now, ops, stored,
                   loaded, banks, listing>>

\* the handler of session s changed its record to d and called save_data
SessionCommit(s, op, txt, d, so) ==
    LET sv == save_data(fs_dir, fs_data, fs_backups, d, now, so)
        entry == d.deposit_history[Len(d.deposit_history)]
    IN  /\ ops < MaxTwoOps
        /\ ops' = ops + 1
        /\ SetSessionData(s, d)
        /\ fs_dir' = sv.dir
        /\ fs_data' = sv.data
        /\ fs_backups' = sv.backups
        /\ DidIn(s, op, txt, IF sv.ret THEN "ok" ELSE "SaveFailed",
                 IF sv.ret THEN [last.acked EXCEPT ![s] = @ \cup {entry}]
                 ELSE last.acked)

SessionRejected(s, op, txt, outcome) ==
    /\ DidIn(s, op, txt, outcome, last.acked)
    /\ UNCHANGED <<bank_data, bank_data_b, fs_dir, fs_data, fs_backups, ops>>

\* deposit in session s
SessionDeposit(s, txt, so) ==
    /\ SessionData(s) # None
    /\ LET data == WorkingRecord(s)
           p == ParseFloat(txt)
       IN  IF ~p.ok
           THEN so = "ok" /\ SessionRejected(s, "session_deposit", txt, "ValueError")
           ELSE IF FLe(p.v, 0)
           THEN so = "ok" /\ SessionRejected(s, "session_deposit", txt, "InvalidAmount")
           ELSE IF TargetExceeded(data, p.v)
           THEN so = "ok" /\ SessionRejected(s, "session_deposit", txt, "TargetExceeded")
           ELSE SessionCommit(s, "session_deposit", txt,
                              DepositApply(data, p.v, now), so)
    /\ UNCHANGED <<current_bank, now, stored, loaded, settings, banks, listing>>

\* withdraw in session s
SessionWithdraw(s, txt, so) ==
    /\ SessionData(s) # None
    /\ LET data == WorkingRecord(s)
           p == ParseFloat(txt)
       IN  IF ~p.ok
           THEN so = "ok" /\ SessionRejected(s, "session_withdraw", txt, "ValueError")
           ELSE IF FLe(p.v, 0)
           THEN so = "ok" /\ SessionRejected(s, "session_withdraw", txt, "InvalidAmount")
           ELSE IF InsufficientFunds(data, p.v)
           THEN so = "ok" /\ SessionRejected(s, "session_withdraw", txt,
                                             "InsufficientFunds")
           ELSE SessionCommit(s, "session_withdraw", txt,
                              WithdrawApply(data, p.v, now), so)
    /\ UNCHANGED <<current_bank, now, stored, loaded, settings, banks, listing>>

TickTwo ==
    /\ Ticks(now) < MaxTick
    /\ now' = IF now.sec = 0 THEN [now EXCEPT !.sec = 1]
              ELSE [day |-> now.day + 1, sec |-> 0]
    /\ DidIn(1, "tick", "", "", last.acked)
    /\ UNCHANGED <<current_bank, bank_data, fs_dir, fs_data, fs_backups,
                   ops, stored, loaded, settings, banks, listing,
                   bank_data_b>>

\* an account an earlier run left, opened by both programs
InitTwo ==
    /\ current_bank = BANK
    /\ now = [day |-> 1, sec |-> 0]
    /\ \E r \in EarlierRecords :
          LET sv == save_data(TRUE, Json(r), <<>>, r, now, "ok")
          IN  /\ fs_dir = sv.dir
              /\ fs_data = sv.data
              /\ fs_backups = sv.backups
              /\ bank_data = load_data(sv.data)
              /\ bank_data_b = load_data(sv.data)
    /\ last = [op |-> "init", arg |-> "", outcome |-> "", session |-> 1,
               acked |-> [s \in Sessions |-> {}]]
    /\ prev = Snapshot
    /\ ops = 0
    /\ stored = Absent
    /\ loaded = [status |-> "none", data |-> None]
    /\ settings = [last_opened_bank |-> BANK]
    /\ banks = [n \in AccountNames |-> NoDir]
    /\ listing = None

\* a save either succeeds or cannot open data.json
NextTwo ==
    \/ \E s \in Sessions : SessionOpen(s)
    \/ \E s \in Sessions, txt \in Texts, so \in {"ok", "open_fail"} :
          SessionDeposit(s, txt, so)
    \/ \E s \in Sessions, txt \in Texts, so \in {"ok", "open_fail"} :
          SessionWithdraw(s, txt, so)
    \/ TickTwo

SpecTwo == InitTwo /\ [][NextTwo]_vars

-----------------------------------------------------------------------------
(* The accounts of MAIN_DATA_DIR and global_settings.json: banks gives for  *)
(* each name NoDir or the files of its directory, settings the settings as  *)
(* load_global_settings returns them, listing the rows of self.bank_list    *)

\* the characters of each name
NameChars(name) ==
    CASE name = "a" -> {"a"}
      [] name = "b" -> {"b"}
      [] name = "a/b" -> {"a", "/", "b"}
      [] OTHER -> {}

\* re.search(r'[\\/*?:"<>|]', name)
IllegalChars == {"\\", "/", "*", "?", ":", "\"", "<", ">", "|"}

HasIllegalChars(name) == NameChars(name) \cap IllegalChars # {}

\* a directory that holds no data.json
EmptyDir == [data |-> Absent, backups |-> <<>>]

list_piggy_banks(b) ==
    {n \in AccountNames : b[n] # NoDir /\ b[n].data # Absent}

\* create_piggy_bank(name) on the accounts b
create_named(b, name, co) ==
    IF name = "" \/ HasIllegalChars(name) THEN [ret |-> FALSE, banks |-> b]
    ELSE LET old == IF b[name] = NoDir THEN EmptyDir ELSE b[name]
             c == create_piggy_bank(b[name] # NoDir, old.data, co)
         IN  [ret |-> c.ret,
              banks |-> IF c.dir THEN [b EXCEPT ![name] = [old EXCEPT !.data = c.data]]
                        ELSE b]

SnapshotAll ==
    [data |-> bank_data, dir |-> fs_dir, file |-> fs_data, backups |-> fs_backups,
     banks |-> banks, settings |-> settings, current |-> current_bank]

\* on_bank_selected once current_bank is name
Selected(name, b, sw) ==
    /\ current_bank' = name
    /\ bank_data' = load_data(b[name].data)
    /\ settings' = update_last_opened_bank(settings, name, sw)

\* create_new_bank.create with name typed
CreateNamed(name, co, sw) ==
    /\ LET c == create_named(banks, name, co)
       IN  /\ banks' = c.banks
           /\ IF c.ret
              THEN /\ listing' = list_piggy_banks(c.banks)
                   /\ Selected(name, c.banks, sw)
              ELSE UNCHANGED <<listing, current_bank, bank_data, settings>>
           /\ last' = [op |-> "create_named", arg |-> co, name |-> name,
                       outcome |-> IF name = "" THEN "EmptyName"
                                   ELSE IF HasIllegalChars(name) THEN "InvalidName"
                                   ELSE IF c.ret THEN "ok" ELSE "CreateFailed"]
           /\ prev' = SnapshotAll
    /\ UNCHANGED <<fs_dir, fs_data, fs_backups, now, ops, stored, loaded,
                   bank_data_b>>

\* a row of self.bank_list is clicked
SelectNamed(name, sw) ==
    /\ name \in listing
    /\ banks[name] # NoDir
    /\ Selected(name, banks, sw)
    /\ last' = [op |-> "select_named", arg |-> "", name |-> name, outcome |-> "ok"]
    /\ prev' = SnapshotAll
    /\ UNCHANGED <<fs_dir, fs_data, fs_backups, now, ops, stored, loaded,
                   banks, listing, bank_data_b>>

\* deposit of 2 into the current account
DepositCurrent(so) ==
    /\ HasBank
    /\ banks[current_bank] # NoDir
    /\ ops < MaxOps
    /\ ~TargetExceeded(bank_data, 2)
    /\ LET d == DepositApply(bank_data, 2, now)
           f == banks[current_bank]
           sv == save_data(TRUE, f.data, f.backups, d, now, so)
       IN  /\ bank_data' = d
           /\ ops' = ops + 1
           /\ banks' = [banks EXCEPT ![current_bank] =
                            [data |-> sv.data, backups |-> sv.backups]]
           /\ last' = [op |-> "deposit_current", arg |-> so, name |-> current_bank,
                       outcome |-> IF sv.ret THEN "ok" ELSE "SaveFailed"]
           /\ prev' = SnapshotAll
    /\ UNCHANGED <<current_bank, fs_dir, fs_data, fs_backups, now, stored, loaded,
                   settings, listing, bank_data_b>>

\* how shutil.rmtree can go: the tree is removed, or it raises with nothing
\* removed, or it raises after data.json is gone
RmtreeOutcomes == {"ok", "fail", "partial"}

rmtree(b, name, ro) ==
    CASE ro = "ok" -> [b EXCEPT ![name] = NoDir]
      [] ro = "partial" -> [b EXCEPT ![name] = [@ EXCEPT !.data = Absent]]
      [] OTHER -> b

\* the body of "for bank_name in selected_banks" for the names of todo, in
\* any order: st is [banks, settings, success, current_deleted]
RECURSIVE DeleteLoop(_, _, _, _)
DeleteLoop(st, todo, ro, sw) ==
    IF todo = {} THEN st
    ELSE LET bank_name == CHOOSE n \in todo : TRUE
             removed == ro[bank_name] = "ok"
             cleared == removed /\ st.settings.last_opened_bank = bank_name /\ sw
         IN  DeleteLoop(
                [banks |-> rmtree(st.banks, bank_name, ro[bank_name]),
                 settings |-> IF cleared
                              THEN [st.settings EXCEPT !.last_opened_bank = NoBank]
                              ELSE st.settings,
                 success |-> IF removed THEN st.success \cup {bank_name}
                             ELSE st.success,
                 current_deleted |-> st.current_deleted
                                     \/ (removed /\ current_bank = bank_name)],
                todo \ {bank_name}, ro, sw)

\* delete_selected on the accounts b and the settings st
delete_selected(b, st, selected, ro, sw) ==
    DeleteLoop([banks |-> b, settings |-> st, success |-> {},
                current_deleted |-> FALSE], selected, ro, sw)

\* show_delete_dialog.delete_selected, the dialog just opened and confirmed
DeleteSelected(selected, ro, sw) ==
    /\ selected # {}
    /\ selected \subseteq list_piggy_banks(banks)
    /\ LET r == delete_selected(banks, settings, selected, ro, sw)
       IN  /\ banks' = r.banks
           /\ settings' = r.settings
           /\ listing' = list_piggy_banks(r.banks)
           /\ current_bank' = IF r.current_deleted THEN NoBank ELSE current_bank
           /\ bank_data' = IF r.current_deleted THEN None ELSE bank_data
           /\ last' = [op |-> "delete_selected", arg |-> sw, name |-> "",
                       outcome |-> "done", selected |-> selected,
                       success |-> r.success]
           /\ prev' = SnapshotAll
    /\ UNCHANGED <<fs_dir, fs_data, fs_backups, now, ops, stored, loaded,
                   bank_data_b>>

InitAccounts ==
    /\ current_bank = NoBank
    /\ bank_data = None
    /\ fs_dir = FALSE
    /\ fs_data = Absent
    /\ fs_backups = <<>>
    /\ now = [day |-> 1, sec |-> 0]
    /\ last = [op |-> "init", arg |-> "", name |-> "", outcome |-> ""]
    /\ banks = [n \in AccountNames |-> NoDir]
    /\ settings = initialize_global_settings
    /\ listing = {}
    /\ prev = SnapshotAll
    /\ ops = 0
    /\ stored = Absent
    /\ loaded = [status |-> "none", data |-> None]
    /\ bank_data_b = None

NextAccounts ==
    \/ \E name \in AccountNames, co \in CreateOutcomes, sw \in BOOLEAN :
          CreateNamed(name, co, sw)
    \/ \E name \in AccountNames, sw \in BOOLEAN : SelectNamed(name, sw)
    \/ \E so \in {"ok", "open_fail"} : DepositCurrent(so)
    \/ \E selected \in SUBSET AccountNames, sw \in BOOLEAN :
          \E ro \in [AccountNames -> RmtreeOutcomes] :
             /\ \A n \in AccountNames \ selected : ro[n] = "ok"
             /\ DeleteSelected(selected, ro, sw)

SpecAccounts == InitAccounts /\ [][NextAccounts]_vars

-----------------------------------------------------------------------------
(* list_backup_files on the backup directories save_data can leave *)

\* the backup written at the i-th second, i counted from 0
BackupAt(i) ==
    [name |-> BackupName([day |-> 1 + (i \div 2), sec |-> i % 2]),
     content |-> Json(initialize_data)]

\* the backups written at the seconds of S, oldest first
RECURSIVE BackupsAt(_)
BackupsAt(S) ==
    IF S = {} THEN <<>>
    ELSE LET i == CHOOSE x \in S : \A y \in S : x <= y
         IN  <<BackupAt(i)>> \o BackupsAt(S \ {i})

Limits == (0 - 1)..(MaxListFiles + 1)

InitList ==
    /\ current_bank = BANK
    /\ bank_data = initialize_data
    /\ fs_dir = TRUE
    /\ fs_data = Json(initialize_data)
    /\ \E S \in SUBSET (0..(MaxListFiles - 1)) : fs_backups = BackupsAt(S)
    /\ now = [day |-> 1, sec |-> 0]
    /\ last = [op |-> "init", arg |-> "", outcome |-> ""]
    /\ prev = Snapshot
    /\ ops = 0
    /\ stored = Absent
    /\ loaded = [status |-> "none", data |-> None]
    /\ settings = initialize_global_settings
    /\ banks = [n \in AccountNames |-> NoDir]
    /\ listing = None
    /\ bank_data_b = None

\* list_backup_files(self.current_bank, limit)
ListBackups(limit) ==
    /\ listing' = [limit |-> limit,
                   files |-> list_backup_files(fs_backups, limit)]
    /\ UNCHANGED <<current_bank, bank_data, fs_dir, fs_data, fs_backups, now,
                   last, prev, ops, stored, loaded, settings, banks,
                   bank_data_b>>

NextList == \E limit \in Limits : ListBackups(limit)

SpecList == InitList /\ [][NextList]_vars

-----------------------------------------------------------------------------
(* What the last step was: every handler records itself in last and what it *)
(* found in prev, so a state with last.op = "deposit" is the state a run of *)
(* deposit on the input last.arg has just left, and prev is the state it    *)
(* started from.                                                            *)

Ran(op) == last.op = op

Arg == ParseFloat(last.arg).v

ArgIsNumber == ParseFloat(last.arg).ok

\* the handler got past its validation (save_data was called)
Applied == last.outcome \in {"ok", "SaveFailed"}

Ledger(data) == data.deposit_history

IsPrefix(s, t) == Len(s) <= Len(t) /\ SubSeq(t, 1, Len(s)) = s

FilesUnchanged ==
    fs_dir = prev.dir /\ fs_data = prev.file /\ fs_backups = prev.backups

-----------------------------------------------------------------------------
(* C1: a deposit of an amount > 0 that does not trip the target cap goes    *)
(* through, sets current_saved to the previous current_saved + amount,      *)
(* raises total_deposits by exactly 1 and appends exactly one ledger entry, *)
(* whose amount is +amount and whose remaining is target - new balance.     *)
C1_DepositEffect ==
    (/\ Ran("deposit") /\ ArgIsNumber /\ FGt(Arg, 0)
     /\ ~(/\ FGt(prev.data.target, 0)
          /\ FGt(FAdd(prev.data.current_saved, Arg), prev.data.target)))
    => /\ Applied
       /\ bank_data.current_saved = FAdd(prev.data.current_saved, Arg)
       /\ bank_data.total_deposits = prev.data.total_deposits + 1
       /\ Len(Ledger(bank_data)) = Len(Ledger(prev.data)) + 1
       /\ IsPrefix(Ledger(prev.data), Ledger(bank_data))
       /\ LET e == Ledger(bank_data)[Len(Ledger(bank_data))]
          IN  /\ e.amount = Arg
              /\ e.remaining = FSub(bank_data.target, bank_data.current_saved)
       /\ bank_data.target = prev.data.target

\* a second deposit went through on top of a first one
C1_Witness ==
    /\ last.op = "deposit" /\ last.outcome = "ok" /\ last.arg = "1"
    /\ bank_data.total_deposits = 2
    /\ bank_data.current_saved = 3

(* C2: a withdrawal of an amount with 0 < amount <= current_saved goes      *)
(* through, sets current_saved to the previous current_saved - amount,      *)
(* leaves total_deposits unchanged and appends exactly one ledger entry,    *)
(* whose amount is -amount and whose remaining is target - new balance.     *)
C2_WithdrawEffect ==
    (/\ Ran("withdraw") /\ ArgIsNumber /\ FGt(Arg, 0)
     /\ FLe(Arg, prev.data.current_saved))
    => /\ Applied
       /\ bank_data.current_saved = FSub(prev.data.current_saved, Arg)
       /\ bank_data.total_deposits = prev.data.total_deposits
       /\ Len(Ledger(bank_data)) = Len(Ledger(prev.data)) + 1
       /\ IsPrefix(Ledger(prev.data), Ledger(bank_data))
       /\ LET e == Ledger(bank_data)[Len(Ledger(bank_data))]
          IN  /\ e.amount = FNeg(Arg)
              /\ e.remaining = FSub(bank_data.target, bank_data.current_saved)
       /\ bank_data.target = prev.data.target

\* part of the balance was withdrawn
C2_Witness ==
    /\ last.op = "withdraw" /\ last.outcome = "ok" /\ last.arg = "1"
    /\ bank_data.current_saved = 1
    /\ bank_data.total_deposits = 1
    /\ Len(bank_data.deposit_history) = 2

(* C3: a deposit of an amount > 0 is rejected as TargetExceeded exactly     *)
(* when target > 0 and current_saved + amount > target; a rejected deposit  *)
(* leaves the in-memory record, the primary file and the backups as they    *)
(* were.                                                                    *)
C3_DepositRejection ==
    (Ran("deposit") /\ ArgIsNumber /\ FGt(Arg, 0))
    => /\ (last.outcome = "TargetExceeded")
            <=> (/\ FGt(prev.data.target, 0)
                 /\ FGt(FAdd(prev.data.current_saved, Arg), prev.data.target))
       /\ (last.outcome = "TargetExceeded")
            => (bank_data = prev.data /\ FilesUnchanged)

\* a deposit was turned away by the cap, with a record and a backup in place
C3_Witness ==
    /\ last.op = "deposit" /\ last.outcome = "TargetExceeded"
    /\ bank_data.target = 1
    /\ fs_data = Json(bank_data)
    /\ Len(fs_backups) > 0

(* C4: a withdrawal of an amount > 0 is rejected as InsufficientFunds       *)
(* exactly when amount > current_saved (the whole balance can be            *)
(* withdrawn); a rejected withdrawal leaves the in-memory record, the       *)
(* primary file and the backups as they were.                               *)
C4_WithdrawRejection ==
    (Ran("withdraw") /\ ArgIsNumber /\ FGt(Arg, 0))
    => /\ (last.outcome = "InsufficientFunds")
            <=> FGt(Arg, prev.data.current_saved)
       /\ (last.outcome = "InsufficientFunds")
            => (bank_data = prev.data /\ FilesUnchanged)

\* more than the balance was asked for and refused
C4_Witness ==
    /\ last.op = "withdraw" /\ last.outcome = "InsufficientFunds"
    /\ last.arg = "2"
    /\ bank_data.current_saved = 1
    /\ Len(fs_backups) > 0

\* the whole balance was withdrawn
C4_WitnessWhole ==
    /\ last.op = "withdraw" /\ last.outcome = "ok" /\ last.arg = "2"
    /\ bank_data.current_saved = 0
    /\ Len(bank_data.deposit_history) = 2

(* C5: current_saved >= 0 in every state the session can reach by deposit, *)
(* withdraw, set target, set mode, reset, save and restore.                 *)
C5_NonNegative ==
    HasBank => FGe(bank_data.current_saved, 0)

(* C6: a record in ACCUMULATE mode has target = 0 or current_saved <=       *)
(* target, also after a new target below the balance was set.               *)
C6_WithinTarget ==
    (HasBank /\ bank_data.saving_mode = ACCUMULATE)
        => (bank_data.target = 0
            \/ FLe(bank_data.current_saved, bank_data.target))

TransactionOps == {"deposit", "withdraw", "set_target", "set_mode", "reset"}

\* the steps that keep the history: all but reset and a new target in
\* PER_TARGET mode
KeepsHistory ==
    \/ last.op \in {"deposit", "withdraw", "set_mode"}
    \/ Ran("set_target") /\ prev.data.saving_mode = ACCUMULATE

\* the steps that start the record afresh
StartsAfresh ==
    /\ Applied
    /\ \/ Ran("reset")
       \/ Ran("set_target") /\ prev.data.saving_mode = PER_TARGET

(* C7, as stated: total_deposits never decreases in a step of deposit,      *)
(* withdraw, set target, set mode or reset.                                 *)
C7_Monotone ==
    (last.op \in TransactionOps)
        => bank_data.total_deposits >= prev.data.total_deposits

(* C7, amended: total_deposits never decreases in a step of deposit,        *)
(* withdraw, set mode, or set target in ACCUMULATE mode; reset, and set     *)
(* target in PER_TARGET mode, put it back to 0.                             *)
C7_MonotoneAmended ==
    /\ KeepsHistory
          => bank_data.total_deposits >= prev.data.total_deposits
    /\ StartsAfresh => bank_data.total_deposits = 0

\* a new target was set in ACCUMULATE mode on a record with a deposit
C7_Witness ==
    /\ last.op = "set_target" /\ last.outcome = "ok"
    /\ bank_data.saving_mode = ACCUMULATE
    /\ bank_data.total_deposits = 1

(* C8, as stated: in a step of deposit, withdraw, set target, set mode or   *)
(* reset the ledger before is a prefix of the ledger after.                 *)
C8_AppendOnly ==
    (last.op \in TransactionOps)
        => IsPrefix(Ledger(prev.data), Ledger(bank_data))

(* C8, amended: in a step of deposit, withdraw, set mode, or set target in  *)
(* ACCUMULATE mode the ledger before is a prefix of the ledger after;       *)
(* reset, and set target in PER_TARGET mode, empty the ledger.              *)
C8_AppendOnlyAmended ==
    /\ KeepsHistory
          => IsPrefix(Ledger(prev.data), Ledger(bank_data))
    /\ StartsAfresh => Ledger(bank_data) = <<>>

\* the mode was switched to PER_TARGET on a record with a ledger entry
C8_Witness ==
    /\ last.op = "set_mode" /\ last.outcome = "ok"
    /\ bank_data.saving_mode = PER_TARGET
    /\ Len(bank_data.deposit_history) = 1

\* the calendar dates of the ledger entries: the text before the first space
RECURSIVE BeforeSpace(_)
BeforeSpace(s) ==
    IF s = <<>> THEN <<>>
    ELSE IF Head(s) = " " THEN <<>> ELSE <<Head(s)>> \o BeforeSpace(Tail(s))

LedgerDates(hist) == {BeforeSpace(hist[i].date) : i \in 1..Len(hist)}

(* C9: in the in-memory record deposit_dates is exactly the set of dates on *)
(* which a ledger entry, deposit or withdrawal, was recorded.               *)
C9_DatesAreLedgerDates ==
    HasBank => Range(bank_data.deposit_dates) = LedgerDates(bank_data.deposit_history)

NoDuplicates(seq) == Cardinality(Range(seq)) = Len(seq)

(* C10: for every stored file that parses, load_data returns deposit_dates  *)
(* equal to the duplicate-free set of the date prefixes (the text before    *)
(* the first space) of the ledger timestamps, whatever deposit_dates the    *)
(* file listed.                                                             *)
C10_LoadedDates ==
    (loaded.status # "none" /\ stored.kind = "json")
        => /\ loaded.status \in {"ok", "default"}
           /\ Range(loaded.data.deposit_dates)
                = LedgerDates(loaded.data.deposit_history)
           /\ NoDuplicates(loaded.data.deposit_dates)

-----------------------------------------------------------------------------
(* C11: for every record reached through deposit, withdraw, set target, set *)
(* mode and reset, loading the account right after the successful save that *)
(* ends the operation yields a record equal to the saved one in every       *)
(* field, deposit_dates included.                                           *)
C11_RoundTrip ==
    (last.op \in TransactionOps /\ last.outcome = "ok")
        => load_data(fs_data) = bank_data

-----------------------------------------------------------------------------
(* Backups *)

Names(backups) == {backups[i].name : i \in 1..Len(backups)}

\* backup a was written at an earlier second than backup b
Older(a, b) ==
    \/ a.name[1] < b.name[1]
    \/ a.name[1] = b.name[1] /\ a.name[2] < b.name[2]

\* the files the last call of save_data found or wrote, and those of them
\* it removed
Present ==
    Range(prev.backups)
        \cup {[name |-> BackupName(now), content |-> Json(bank_data)]}

Removed == {b \in Present : b.name \notin Names(fs_backups)}

Kept == Range(fs_backups)

RemovedWereOldest == \A r \in Removed : \A k \in Kept : Older(r, k)

(* C12: after more than 5 successful saves of the account exactly 5 backup  *)
(* files remain, the 5 most recently modified ones, for every timing of the *)
(* saves, several saves within one clock second included.                   *)
C12_ExactlyFive ==
    (ops > MaxBackups)
        => /\ Len(fs_backups) = MaxBackups
           /\ \A i \in 1..(Len(fs_backups) - 1) :
                 Older(fs_backups[i], fs_backups[i + 1])

C14_Atomic ==
    ((last.op \in TransactionOps \cup {"save"}) /\ Applied)
        => \/ /\ fs_data = Json(bank_data)
              /\ \E b \in Range(fs_backups) : b.content = Json(bank_data)
           \/ fs_data = prev.file

\* the two writes of the last save_data call both succeeded
BothWritten ==
    /\ Ran("save_data")
    /\ last.arg \notin {"open_fail", "backup_open_fail", "dump_fail"}
    /\ fs_data = Json(bank_data)
    /\ \E b \in Range(fs_backups) :
          b.name = BackupName(now) /\ b.content = Json(bank_data)

(* C15: once the primary and the backup write have both succeeded save      *)
(* returns success, whatever happens while the backup directory is listed,  *)
(* the files are ordered by modification time or an old file is removed.    *)
C15_RotationNeverFails ==
    BothWritten => last.outcome = "ok"

-----------------------------------------------------------------------------
(* C16: when the save at the end of deposit, withdraw, set target, set mode *)
(* or reset fails, the in-memory record equals the record as it was before  *)
(* the operation began.                                                     *)
C16_FailedSaveDiscards ==
    (last.op \in TransactionOps /\ last.outcome = "SaveFailed")
        => bank_data = prev.data

(* C17: set target with a new target > 0 on a record in PER_TARGET mode     *)
(* yields a record with target = the new target, saving_mode = PER_TARGET,  *)
(* current_saved = 0, total_deposits = 0, no deposit_dates and an empty     *)
(* ledger, whatever the record held before.                                 *)
C17_PerTargetFresh ==
    (/\ Ran("set_target") /\ ArgIsNumber /\ FGt(Arg, 0)
     /\ prev.data.saving_mode = PER_TARGET)
    => /\ Applied
       /\ bank_data.target = Arg
       /\ bank_data.saving_mode = PER_TARGET
       /\ bank_data.current_saved = 0
       /\ bank_data.total_deposits = 0
       /\ bank_data.deposit_dates = <<>>
       /\ bank_data.deposit_history = <<>>

\* a new target was set on a PER_TARGET record that held a deposit
C17_Witness ==
    /\ Ran("set_target") /\ last.outcome = "ok" /\ last.arg = "1"
    /\ prev.data.saving_mode = PER_TARGET
    /\ prev.data.current_saved = 2
    /\ Len(prev.data.deposit_history) = 1
    /\ bank_data.target = 1

(* C18: set target with a new target > 0 on a record in ACCUMULATE mode     *)
(* changes only target; with a new target <= 0 it is rejected and changes   *)
(* nothing, in either mode.                                                 *)
C18_AccumulateFrame ==
    /\ (/\ Ran("set_target") /\ ArgIsNumber /\ FGt(Arg, 0)
        /\ prev.data.saving_mode = ACCUMULATE)
       => /\ Applied
          /\ bank_data.target = Arg
          /\ bank_data.current_saved = prev.data.current_saved
          /\ bank_data.total_deposits = prev.data.total_deposits
          /\ bank_data.deposit_dates = prev.data.deposit_dates
          /\ bank_data.deposit_history = prev.data.deposit_history
          /\ bank_data.saving_mode = ACCUMULATE
    /\ (Ran("set_target") /\ ArgIsNumber /\ FLe(Arg, 0))
       => /\ last.outcome = "InvalidAmount"
          /\ bank_data = prev.data
          /\ FilesUnchanged

\* a target was set on an ACCUMULATE record that held a deposit
C18_Witness ==
    /\ Ran("set_target") /\ last.outcome = "ok" /\ last.arg = "2"
    /\ prev.data.saving_mode = ACCUMULATE
    /\ prev.data.target = 0
    /\ bank_data.current_saved = 2
    /\ bank_data.deposit_dates # <<>>

\* a target of 0 was refused on a PER_TARGET record
C18_WitnessRejected ==
    /\ Ran("set_target") /\ last.outcome = "InvalidAmount"
    /\ bank_data.saving_mode = PER_TARGET

(* C19: set mode changes only saving_mode, in both directions: target,      *)
(* current_saved, total_deposits, deposit_dates and the ledger are          *)
(* unchanged, and the switch to PER_TARGET does not reset the record.       *)
C19_ModeFrame ==
    Ran("set_mode")
    => /\ Applied
       /\ bank_data.saving_mode
            = (IF last.arg = "0" THEN ACCUMULATE ELSE PER_TARGET)
       /\ bank_data.target = prev.data.target
       /\ bank_data.current_saved = prev.data.current_saved
       /\ bank_data.total_deposits = prev.data.total_deposits
       /\ bank_data.deposit_dates = prev.data.deposit_dates
       /\ bank_data.deposit_history = prev.data.deposit_history

\* a PER_TARGET record holding a deposit was switched back to ACCUMULATE
C19_Witness ==
    /\ Ran("set_mode") /\ last.outcome = "ok" /\ last.arg = "0"
    /\ prev.data.saving_mode = PER_TARGET
    /\ bank_data.saving_mode = ACCUMULATE
    /\ bank_data.current_saved = 2
    /\ Len(bank_data.deposit_history) = 1

\* an ACCUMULATE record holding a deposit was switched to PER_TARGET
C19_WitnessToPerTarget ==
    /\ Ran("set_mode") /\ last.outcome = "ok" /\ last.arg = "1"
    /\ prev.data.saving_mode = ACCUMULATE
    /\ bank_data.saving_mode = PER_TARGET
    /\ bank_data.total_deposits = 1

(* C20: reset replaces the record with the empty default whatever it held:  *)
(* target 0, current_saved 0, total_deposits 0, no deposit_dates, an empty  *)
(* ledger and saving_mode ACCUMULATE, also for a record in PER_TARGET mode. *)
C20_ResetDefault ==
    Ran("reset")
    => /\ Applied
       /\ bank_data.target = 0
       /\ bank_data.current_saved = 0
       /\ bank_data.total_deposits = 0
       /\ bank_data.deposit_dates = <<>>
       /\ bank_data.deposit_history = <<>>
       /\ bank_data.saving_mode = ACCUMULATE

\* a PER_TARGET record holding a deposit was reset
C20_Witness ==
    /\ Ran("reset") /\ last.outcome = "ok"
    /\ prev.data.saving_mode = PER_TARGET
    /\ prev.data.current_saved = 2
    /\ bank_data.saving_mode = ACCUMULATE

-----------------------------------------------------------------------------
(* Loading what the program did not write *)

IsObject(file) == file.kind = "json"

Has(file, k) == IsObject(file) /\ k \in DOMAIN file.data

\* a ledger that is a list of entries each with a date that has a character
\* other than white space
ProperLedger(h) ==
    /\ h # NotAList
    /\ \A i \in 1..Len(h) :
          /\ "date" \in DOMAIN h[i]
          /\ \E j \in 1..Len(h[i].date) : ~IsSpace(h[i].date[j])

\* what the file holds does not fit the schema of a record
SchemaMismatch(file) ==
    \/ ~IsObject(file)
    \/ Has(file, "target") /\ file.data.target = StrValue
    \/ Has(file, "deposit_history") /\ ~ProperLedger(file.data.deposit_history)

(* C21: load fails soft for every stored content: a read error, a parse     *)
(* error or a schema mismatch (a missing or wrong-typed field, a non-list   *)
(* ledger, a non-object top level, a ledger entry without a date) makes     *)
(* load return the fresh empty default, and load never raises.              *)
C21_FailSoft ==
    (loaded.status # "none")
        => /\ loaded.status \in {"ok", "default"}
           /\ SchemaMismatch(stored) => loaded.data = initialize_data

(* C22, as stated: loading a file that parses fills every missing key from  *)
(* the defaults and keeps the stored value of every key that is present.    *)
C22_FillsAndKeeps ==
    (loaded.status # "none" /\ IsObject(stored))
        => /\ loaded.status = "ok"
           /\ \A k \in Keys :
                 loaded.data[k] = (IF Has(stored, k) THEN stored.data[k]
                                   ELSE initialize_data[k])

(* C22, amended: loading a file that parses to an object whose ledger, if   *)
(* present, is a list of entries each with a non-blank date fills every     *)
(* missing key from the defaults and keeps the stored value of every        *)
(* present key other than deposit_dates, which is recomputed from the       *)
(* ledger whatever the file listed; a file missing all keys loads as the    *)
(* exact default record with saving_mode ACCUMULATE.                        *)
C22_FillsAndKeepsAmended ==
    (/\ loaded.status # "none" /\ IsObject(stored)
     /\ Has(stored, "deposit_history") => ProperLedger(stored.data.deposit_history))
        => /\ loaded.status = "ok"
           /\ \A k \in Keys \ {"deposit_dates"} :
                 loaded.data[k] = (IF Has(stored, k) THEN stored.data[k]
                                   ELSE initialize_data[k])
           /\ NoDuplicates(loaded.data.deposit_dates)
           /\ Len(loaded.data.deposit_dates) <= Len(loaded.data.deposit_history)
           /\ (DOMAIN stored.data = {}) => loaded.data = initialize_data

\* a file with only saving_mode and a ledger was loaded
C22_Witness ==
    /\ loaded.status = "ok"
    /\ IsObject(stored)
    /\ DOMAIN stored.data = {"saving_mode", "deposit_history"}
    /\ loaded.data.saving_mode = PER_TARGET
    /\ loaded.data.target = 0
    /\ Len(loaded.data.deposit_dates) = 1

\* a file that is the empty object was loaded
C22_WitnessEmpty ==
    /\ loaded.status = "ok"
    /\ IsObject(stored)
    /\ DOMAIN stored.data = {}
    /\ loaded.data.saving_mode = ACCUMULATE

-----------------------------------------------------------------------------
(* C26: list_backup_files returns the account's backups newest first by     *)
(* modification time: with a limit > 0 exactly the first min(limit, count)  *)
(* of that order, with no limit or a limit <= 0 all of them, and the empty  *)
(* list when there is no backup.                                            *)
C26_NewestFirst ==
    (listing # None)
    => LET r == listing.files
           n == Len(fs_backups)
       IN  /\ Len(r) = (IF listing.limit > 0 /\ listing.limit < n
                        THEN listing.limit ELSE n)
           /\ \A i \in 1..Len(r) : r[i] \in Range(fs_backups)
           /\ \A i \in 1..(Len(r) - 1) : Older(r[i + 1], r[i])
           /\ \A b \in Range(fs_backups) :
                 b \in Range(r) \/ \A i \in 1..Len(r) : Older(b, r[i])

\* the two newest of four backups were asked for
C26_Witness ==
    /\ listing # None
    /\ listing.limit = 2
    /\ Len(fs_backups) = 4
    /\ Len(listing.files) = 2
    /\ listing.files[1] = fs_backups[4]

\* a directory without backups was listed
C26_WitnessEmpty ==
    /\ listing # None
    /\ fs_backups = <<>>
    /\ listing.files = <<>>

(* C24: a successful restore leaves the primary file equal to the chosen    *)
(* backup's content, a new backup entry holding that content exists, and    *)
(* every backup file that existed before the restore still exists, also     *)
(* when 5 backups existed already.                                          *)
C24_RestoreKeepsHistory ==
    (Ran("restore_data") /\ last.outcome = "ok")
        => /\ fs_data = last.chosen.content
           /\ \E b \in Range(fs_backups) :
                 b.name = BackupName(now) /\ b.content = last.chosen.content
           /\ Names(prev.backups) \subseteq Names(fs_backups)

-----------------------------------------------------------------------------
(* The record, its ledger and its files *)

\* == on floats: NaN equals nothing, itself included
FEq(x, y) == ~IsNaN(x) /\ ~IsNaN(y) /\ x = y

RECURSIVE SumAmounts(_)
SumAmounts(hist) ==
    IF hist = <<>> THEN 0 ELSE FAdd(Head(hist).amount, SumAmounts(Tail(hist)))

CountPositive(hist) ==
    Cardinality({i \in 1..Len(hist) : FGt(hist[i].amount, 0)})

(* C28: in every state reached from a freshly created account by deposit,   *)
(* withdraw, set target, set mode and reset with all saves succeeding,      *)
(* current_saved equals the sum of the signed ledger amounts and            *)
(* total_deposits the number of ledger entries with a positive amount.      *)
C28_LedgerConsistent ==
    (HasBank /\ last.op \in TransactionOps /\ last.outcome = "ok")
        => /\ FEq(bank_data.current_saved, SumAmounts(bank_data.deposit_history))
           /\ bank_data.total_deposits = CountPositive(bank_data.deposit_history)

(* C29: after every deposit, withdraw, set target, set mode, reset or       *)
(* restore whose save reports success the primary file holds the in-memory  *)
(* record and the most recently modified backup holds what the primary      *)
(* file holds.                                                              *)
C29_WriteThrough ==
    ((last.op \in TransactionOps \cup {"restore"}) /\ last.outcome = "ok")
        => /\ fs_data = Json(bank_data)
           /\ fs_backups # <<>>
           /\ fs_backups[Len(fs_backups)].content = fs_data

(* C30: in every reachable state, also after a create whose record write    *)
(* failed once the directory was made, the account name is returned by the  *)
(* list or can still be created: it is never both absent from the list and  *)
(* rejected by create as existing.                                          *)
C30_ListedOrCreatable ==
    Listed \/ ~fs_dir

-----------------------------------------------------------------------------
(* Two sessions on one account *)

SessionWrote ==
    last.op \in {"session_deposit", "session_withdraw"} /\ last.outcome = "ok"

\* the signed amount of the transaction just made
SignedAmount ==
    IF last.op = "session_deposit" THEN ParseFloat(last.arg).v
    ELSE FNeg(FAbs(ParseFloat(last.arg).v))

(* C27: two sessions hold the same account unprotected; when a session      *)
(* commits a valid deposit or withdrawal the primary record is that         *)
(* writer's record alone: its own earlier in-memory ledger plus the new     *)
(* entry and its own balance plus the amount, whatever the other session    *)
(* had persisted. A lost update is reachable (C27_LostUpdate).              *)
C27_LastWriterWins ==
    SessionWrote =>
        LET mine == prev.data
            n == Len(mine.deposit_history)
        IN  /\ fs_data = Json(SessionData(last.session))
            /\ Len(fs_data.data.deposit_history) = n + 1
            /\ SubSeq(fs_data.data.deposit_history, 1, n) = mine.deposit_history
            /\ fs_data.data.deposit_history[n + 1].amount = SignedAmount
            /\ fs_data.data.current_saved = FAdd(mine.current_saved, SignedAmount)

\* a transaction the other session was told was saved, and which data.json
\* held until this write, is absent from the persisted ledger
C27_LostUpdate ==
    /\ SessionWrote
    /\ \E s \in Sessions \ {last.session} :
          \E e \in last.acked[s] :
             /\ prev.file.kind = "json"
             /\ e \in Range(prev.file.data.deposit_history)
             /\ fs_data.kind = "json"
             /\ e \notin Range(fs_data.data.deposit_history)
             /\ ~IsNaN(e.amount)
             /\ fs_data.data.current_saved
                   = FAdd(prev.data.current_saved, SignedAmount)

-----------------------------------------------------------------------------
(* Creating and deleting accounts *)

\* what a new account's directory holds
FreshAccount == [data |-> Json(initialize_data), backups |-> <<>>]

(* C23: create(name) fails and creates nothing when name is empty or       *)
(* contains one of \ / * ? : " < > |, fails leaving the existing directory  *)
(* untouched when a directory for name exists, and otherwise creates the    *)
(* directory, writes the empty default record and returns name.             *)
C23_CreateContract ==
    Ran("create_named") =>
        LET name == last.name
        IN  IF name = "" \/ HasIllegalChars(name) \/ prev.banks[name] # NoDir
            THEN last.outcome # "ok" /\ banks = prev.banks
            ELSE /\ last.outcome = "ok"
                 /\ banks = [prev.banks EXCEPT ![name] = FreshAccount]

(* C25: after an account is deleted successfully its directory is gone and  *)
(* list() does not contain it, the last-opened pointer of the global        *)
(* settings does not name it, a session that was on it holds no current     *)
(* account and no record, and accounts not selected are unchanged.          *)
C25_DeleteContract ==
    Ran("delete_selected") =>
        /\ \A n \in last.success :
              /\ banks[n] = NoDir
              /\ n \notin list_piggy_banks(banks)
              /\ n \notin listing
              /\ settings.last_opened_bank # n
              /\ prev.current = n => (current_bank = NoBank /\ bank_data = None)
        /\ \A n \in AccountNames \ last.selected : banks[n] = prev.banks[n]

====
